---- MODULE Spec2Model ----
(***************************************************************************)
(* A model of argle (src/src/lib.rs): argument descriptors, the            *)
(* combinators over them, registration of their switches on a surface,     *)
(* and the top-level driver parse_specified / parse_env_or_exit.           *)
(*                                                                         *)
(* Strings are sequences of one-character strings (so that lengths,        *)
(* prefixes and splits are computed, as the code and the matching engine   *)
(* compute them).  The literal pieces of a format string are kept as       *)
(* single fragments of the sequence.                                       *)
(***************************************************************************)
EXTENDS Integers, Sequences, FiniteSets, TLC

VARIABLES
    arg,        \* self: the root descriptor of the run
    env_args,   \* env::args(): the program name followed by the argument list
    pc,         \* position of the driver
    checker,    \* the validation::Checker of validate()
    opts,       \* the getopts::Options of parse_specified_ignoring_validation
    matched,    \* None, or Some(result of opts.parse(args))
    get_log,    \* the get calls and conversion calls made, in call order
    result,     \* None, or Some(ParseResult)
    stdout,     \* what was written to standard output
    stderr,     \* what was written to standard error
    exit_code,  \* None, or Some(status of process::exit)
    returned    \* None, or Some(value parse_env_or_exit returned)

vars == <<arg, env_args, pc, checker, opts, matched, get_log, result,
          stdout, stderr, exit_code, returned>>

(***************************************************************************)
(* Option and Result.                                                      *)
(***************************************************************************)
None == [some |-> FALSE]

Some(x) == [some |-> TRUE, v |-> x]

Ok(x) == [ok |-> TRUE, v |-> x]

Err(e) == [ok |-> FALSE, e |-> e]

(***************************************************************************)
(* SwitchCommon and SwitchShape.                                           *)
(***************************************************************************)
SwitchCommonNew(short, long, doc) ==
    [short |-> short, long |-> long, doc |-> doc]

\* Mutant: prefers the long name.
key_to_search_in_matches_PrefersLong(common) ==
    IF Len(common.long) # 0 THEN common.long ELSE common.short

key_to_search_in_matches(common) ==
    IF Len(common.short) # 0 THEN common.short ELSE common.long

ShapeFlag == [t |-> "Flag", hint |-> <<>>]

ShapeOpt(hint) == [t |-> "Opt", hint |-> hint]

(***************************************************************************)
(* The matching engine (crate getopts), as far as the library uses it:     *)
(* Options::new, optflag, optopt, parse, Matches::opt_present, opt_str.    *)
(***************************************************************************)
Short(ch) == [t |-> "Short", s |-> <<ch>>]

Long(s) == [t |-> "Long", s |-> s]

\* Name::from_str: a one-character name is a short name.
NameFromStr(nm) == IF Len(nm) = 1 THEN Short(nm[1]) ELSE Long(nm)

Given == [t |-> "Given", s |-> <<>>]

Val(s) == [t |-> "Val", s |-> s]

OptionsNew == [t |-> "Options", grps |-> <<>>, panicked |-> FALSE]

\* optflag / optopt: the names are asserted (a short name has at most one
\* character, a long name is empty or has more than one), then the group is
\* pushed.  A failed assertion panics; nothing is pushed after a panic.
OptionsPush(o, common, hasarg, hint) ==
    IF o.panicked THEN o
    ELSE IF Len(common.short) > 1 \/ Len(common.long) = 1
    THEN [o EXCEPT !.panicked = TRUE]
    ELSE [o EXCEPT !.grps = Append(@,
            [short_name |-> common.short, long_name |-> common.long,
             hint |-> hint, desc |-> common.doc, hasarg |-> hasarg])]

\* OptGroup::long_to_short: the long name is the option's name when there is
\* one, and the short name is then an alias.  (It panics on a group with
\* neither name; every switch of the model has one.)
LongToShort(g) ==
    IF Len(g.long_name) = 0
    THEN [name |-> Short(g.short_name[1]), aliases |-> <<>>, hasarg |-> g.hasarg]
    ELSE [name |-> Long(g.long_name),
          aliases |-> IF Len(g.short_name) = 0 THEN <<>>
                      ELSE <<Short(g.short_name[1])>>,
          hasarg |-> g.hasarg]

\* iter().position(..): the least index of the set, or 0 when it is empty.
Position(S) == IF S = {} THEN 0 ELSE CHOOSE i \in S : \A j \in S : i <= j

\* find_opt: the main names first, then the aliases; an alias resolves to
\* the first option carrying the name of the option that has the alias.
FindOpt(os, nm) ==
    LET main == Position({i \in 1..Len(os) : os[i].name = nm})
        cand == Position({i \in 1..Len(os) :
                            \E k \in 1..Len(os[i].aliases) : os[i].aliases[k] = nm})
    IN  IF main # 0 THEN main
        ELSE IF cand # 0 THEN Position({i \in 1..Len(os) : os[i].name = os[cand].name})
        ELSE 0

\* is_arg: starts with "-" and is longer than one character.
IsArg(cur) == Len(cur) > 1 /\ cur[1] = "-"

\* tail.splitn(2, '='): the text before the first "=", and the rest if any.
SplitEq(tail) ==
    LET eq == Position({i \in 1..Len(tail) : tail[i] = "="})
    IN  IF eq = 0 THEN [name |-> tail, i_arg |-> None]
        ELSE [name |-> SubSeq(tail, 1, eq - 1),
              i_arg |-> Some(SubSeq(tail, eq + 1, Len(tail)))]

\* "-abc": each character is a short option; once one takes a value, the
\* rest of the word is that value.
RECURSIVE ShortNames(_, _, _, _)
ShortNames(os, cur, j, names) ==
    IF j > Len(cur) THEN [ok |-> TRUE, names |-> names, i_arg |-> None]
    ELSE LET id == FindOpt(os, Short(cur[j]))
         IN  IF id = 0 THEN Err([t |-> "UnrecognizedOption", s |-> <<cur[j]>>])
             ELSE IF os[id].hasarg = "Yes" /\ j < Len(cur)
             THEN [ok |-> TRUE, names |-> Append(names, Short(cur[j])),
                   i_arg |-> Some(SubSeq(cur, j + 1, Len(cur)))]
             ELSE ShortNames(os, cur, j + 1, Append(names, Short(cur[j])))

\* The names of one word of the argument list, and its inline value.
WordNames(os, cur) ==
    IF cur[2] = "-"
    THEN LET sp == SplitEq(SubSeq(cur, 3, Len(cur)))
         IN  [ok |-> TRUE, names |-> <<NameFromStr(sp.name)>>, i_arg |-> sp.i_arg]
    ELSE ShortNames(os, cur, 2, <<>>)

\* for nm in names: record the occurrence of each name; a value-taking
\* option takes the inline value, or else the next word of the list.
RECURSIVE ApplyNames(_, _, _, _, _, _, _)
ApplyNames(os, names, k, i_arg, args, next, vals) ==
    IF k > Len(names) THEN [ok |-> TRUE, vals |-> vals, next |-> next]
    ELSE LET nm == names[k]
             id == FindOpt(os, nm)
         IN  IF id = 0 THEN Err([t |-> "UnrecognizedOption", s |-> nm.s])
             ELSE IF os[id].hasarg = "No"
             THEN IF k = Len(names) /\ i_arg.some
                  THEN Err([t |-> "UnexpectedArgument", s |-> nm.s])
                  ELSE ApplyNames(os, names, k + 1, i_arg, args, next,
                                  [vals EXCEPT ![id] = Append(@, Given)])
             ELSE IF i_arg.some
             THEN ApplyNames(os, names, k + 1, None, args, next,
                             [vals EXCEPT ![id] = Append(@, Val(i_arg.v))])
             ELSE IF next <= Len(args)
             THEN ApplyNames(os, names, k + 1, None, args, next + 1,
                             [vals EXCEPT ![id] = Append(@, Val(args[next]))])
             ELSE Err([t |-> "ArgumentMissing", s |-> nm.s])

\* while let Some(cur) = args.next()
RECURSIVE ParseWords(_, _, _, _, _)
ParseWords(os, args, i, vals, free) ==
    IF i > Len(args) THEN Ok([vals |-> vals, free |-> free])
    ELSE LET cur == args[i]
         IN  IF ~IsArg(cur) THEN ParseWords(os, args, i + 1, vals, Append(free, cur))
             ELSE IF cur = <<"-", "-">>
             THEN Ok([vals |-> vals, free |-> free \o SubSeq(args, i + 1, Len(args))])
             ELSE LET w == WordNames(os, cur)
                  IN  IF ~w.ok THEN Err(w.e)
                      ELSE LET r == ApplyNames(os, w.names, 1, w.i_arg, args, i + 1, vals)
                           IN  IF ~r.ok THEN Err(r.e)
                               ELSE ParseWords(os, args, r.next, r.vals, free)

\* Options::parse.  Every switch the library registers may occur at most
\* once (optflag and optopt register Occur::Optional).
OptionsParse(o, args) ==
    LET os == [i \in 1..Len(o.grps) |-> LongToShort(o.grps[i])]
        r  == ParseWords(os, args, 1, [i \in 1..Len(os) |-> <<>>], <<>>)
        dup == Position({i \in 1..Len(os) : r.ok /\ Len(r.v.vals[i]) > 1})
    IN  IF ~r.ok THEN r
        ELSE IF dup # 0 THEN Err([t |-> "OptionDuplicated", s |-> os[dup].name.s])
        ELSE Ok([opts |-> os, vals |-> r.v.vals, free |-> r.v.free])

\* Matches::opt_vals.  It panics when no option has the name; a descriptor
\* only looks up the key of the switch it registered itself.
OptVals(m, nm) ==
    LET id == FindOpt(m.opts, NameFromStr(nm))
    IN  IF id = 0 THEN <<>> ELSE m.vals[id]

OptPresent(m, nm) == Len(OptVals(m, nm)) # 0

OptStr(m, nm) ==
    LET vs == OptVals(m, nm)
    IN  IF Len(vs) # 0 /\ vs[1].t = "Val" THEN Some(vs[1].s) ELSE None

\* Display of getopts::Fail.
FailDisplay(f) ==
    CASE f.t = "ArgumentMissing" -> <<"Argument to option '">> \o f.s \o <<"' missing">>
      [] f.t = "UnrecognizedOption" -> <<"Unrecognized option: '">> \o f.s \o <<"'">>
      [] f.t = "OptionMissing" -> <<"Required option '">> \o f.s \o <<"' missing">>
      [] f.t = "OptionDuplicated" -> <<"Option '">> \o f.s \o <<"' given more than once">>
      [] f.t = "UnexpectedArgument" ->
            <<"Option '">> \o f.s \o <<"' does not take an argument">>

(***************************************************************************)
(* Surfaces: the two implementations of trait Switches.                    *)
(***************************************************************************)
\* validation::Checker: records every switch presented to it.
CheckerDefault == [t |-> "Checker", seen |-> <<>>]

CheckerAdd(c, common, shape) ==
    [c EXCEPT !.seen = Append(@, [common |-> common, shape |-> shape])]

\* Checker::invalid: the keys registered more than once, each with the
\* places of the switches registered under it; None when there is none.
CheckerInvalid(c) ==
    LET Key(i) == key_to_search_in_matches(c.seen[i].common)
        dups == {Key(i) : i \in {i \in 1..Len(c.seen) :
                                    \E j \in 1..Len(c.seen) : j # i /\ Key(j) = Key(i)}}
    IN  IF dups = {} THEN None
        ELSE Some([k \in dups |-> {i \in 1..Len(c.seen) : Key(i) = k}])

\* impl Switches for getopts::Options
OptionsAdd(o, common, arity) ==
    IF arity.t = "Flag" THEN OptionsPush(o, common, "No", <<>>)
    ELSE OptionsPush(o, common, "Yes", arity.hint)

\* switches.add(common, shape), dispatched on the surface's type.
SwitchesAdd(s, common, shape) ==
    IF s.t = "Checker" THEN CheckerAdd(s, common, shape)
    ELSE OptionsAdd(s, common, shape)

(***************************************************************************)
(* Descriptors.                                                            *)
(***************************************************************************)
FlagNew(short, long, doc) ==
    [kind |-> "Flag", common |-> SwitchCommonNew(short, long, doc)]

OptNew(short, long, doc, hint) ==
    [kind |-> "Opt", common |-> SwitchCommonNew(short, long, doc), hint |-> hint]

ValueNew(name, value) == [kind |-> "Value", name |-> name, value |-> value]

with_help(a, help_flag) == [kind |-> "WithHelp", arg |-> a, help_flag |-> help_flag]

with_help_default(a) ==
    with_help(a, FlagNew(<<"h">>, <<"h", "e", "l", "p">>, <<"print this help menu">>))

option_map(a, f) == [kind |-> "OptionMap", arg |-> a, f |-> f]

with_default(a, default_value) ==
    [kind |-> "WithDefault", arg |-> a, default_value |-> default_value]

choice(a, b) == [kind |-> "Choice", a |-> a, b |-> b]

both(a, b) == [kind |-> "Both", a |-> a, b |-> b]

map(a, f) == [kind |-> "Map", arg |-> a, f |-> f]

required(a) == [kind |-> "Required", arg |-> a]

option_convert_string(a, f) == [kind |-> "OptionConvertString", arg |-> a, f |-> f]

\* opt::<u32>: Opt::new(..).option_convert_string(|s| s.parse())
opt(short, long, doc, hint) ==
    option_convert_string(OptNew(short, long, doc, hint), "parse")

\* args_map! { let { a = x; b = y; } in { a + b } }
args_map_add(x, y) == map(map(both(x, y), "unflatten"), "add")

(***************************************************************************)
(* The functions carried by the descriptors of the model.                  *)
(***************************************************************************)
Digits == <<"0", "1", "2", "3", "4", "5", "6", "7", "8", "9">>

IsDigit(c) == \E k \in 1..Len(Digits) : Digits[k] = c

DigitValue(c) == (CHOOSE k \in 1..Len(Digits) : Digits[k] = c) - 1

RECURSIVE DigitsValue(_, _)
DigitsValue(s, acc) ==
    IF Len(s) = 0 THEN acc ELSE DigitsValue(Tail(s), acc * 10 + DigitValue(Head(s)))

\* str::parse::<u32>: an optional "+", then one or more decimal digits.
\* (The strings of the model are too short to overflow a u32.)
ParseU32(s) ==
    LET body == IF Len(s) > 0 /\ s[1] = "+" THEN Tail(s) ELSE s
    IN  IF Len(s) = 0 THEN Err([t |-> "ParseIntError", kind |-> "Empty"])
        ELSE IF Len(body) = 0 \/ \E k \in 1..Len(body) : ~IsDigit(body[k])
        THEN Err([t |-> "ParseIntError", kind |-> "InvalidDigit"])
        ELSE Ok(DigitsValue(body, 0))

Apply(f, x) ==
    CASE f = "parse" -> ParseU32(x)
      [] f = "unflatten" -> <<x[1], x[2]>>
      [] f = "add" -> x[1] + x[2]
      [] f = "succ" -> x + 1

(***************************************************************************)
(* Arg::name                                                               *)
(***************************************************************************)
RECURSIVE Name(_)
Name(d) ==
    CASE d.kind \in {"Flag", "Opt"} -> d.common.long
      [] d.kind = "Value" -> d.name
      [] d.kind = "WithHelp" -> <<"(">> \o Name(d.arg) \o <<") with help">>
      [] d.kind = "Choice" ->
            <<"choose (">> \o Name(d.a) \o <<") or (">> \o Name(d.b) \o <<")">>
      [] d.kind = "Both" -> <<"(">> \o Name(d.a) \o <<" and ">> \o Name(d.b) \o <<")">>
      [] OTHER -> Name(d.arg)

(***************************************************************************)
(* Arg::update_switches                                                    *)
(***************************************************************************)
RECURSIVE UpdateSwitches(_, _)

Flag_update_switches(d, switches) == SwitchesAdd(switches, d.common, ShapeFlag)

Opt_update_switches(d, switches) == SwitchesAdd(switches, d.common, ShapeOpt(d.hint))

Value_update_switches(d, switches) == switches

WithHelp_update_switches(d, switches) ==
    UpdateSwitches(d.help_flag, UpdateSwitches(d.arg, switches))

Choice_update_switches(d, switches) ==
    UpdateSwitches(d.b, UpdateSwitches(d.a, switches))

\* Mutant: b is registered before a.
Both_update_switches_Swapped(d, switches) ==
    UpdateSwitches(d.a, UpdateSwitches(d.b, switches))

Both_update_switches(d, switches) ==
    UpdateSwitches(d.b, UpdateSwitches(d.a, switches))

\* OptionMap, WithDefault, Map, Required, OptionConvertString
Wrapper_update_switches(d, switches) == UpdateSwitches(d.arg, switches)

UpdateSwitches(d, switches) ==
    CASE d.kind = "Flag" -> Flag_update_switches(d, switches)
      [] d.kind = "Opt" -> Opt_update_switches(d, switches)
      [] d.kind = "Value" -> Value_update_switches(d, switches)
      [] d.kind = "WithHelp" -> WithHelp_update_switches(d, switches)
      [] d.kind = "Choice" -> Choice_update_switches(d, switches)
      [] d.kind = "Both" -> Both_update_switches(d, switches)
      [] OTHER -> Wrapper_update_switches(d, switches)

\* Arg::validate
Validate(d) == CheckerInvalid(UpdateSwitches(d, CheckerDefault))

(***************************************************************************)
(* Arg::get.  Get(d, matches, p) is the result r of d.get(matches) and the *)
(* log of the calls it made: <<q, "get">> for the get of the descriptor at *)
(* path q of the tree, <<q, "f">> for a call of the function it carries.   *)
(***************************************************************************)
Help == [t |-> "Help"]

OrHelpValue(x) == [t |-> "Value", v |-> x]

RECURSIVE Get(_, _, _)

Flag_get(d, matches, p) ==
    [r |-> Ok(OptPresent(matches, key_to_search_in_matches(d.common))),
     log |-> << <<p, "get">> >>]

Opt_get(d, matches, p) ==
    [r |-> Ok(OptStr(matches, key_to_search_in_matches(d.common))),
     log |-> << <<p, "get">> >>]

Value_get(d, matches, p) == [r |-> Ok(d.value), log |-> << <<p, "get">> >>]

\* Mutant: the wrapped descriptor is extracted before the help flag is
\* looked at, and its result is dropped when help was asked for.
WithHelp_get_Eager(d, matches, p) ==
    LET a == Get(d.arg, matches, Append(p, "arg"))
        h == Get(d.help_flag, matches, Append(p, "help_flag"))
    IN  [r |-> IF h.r.v THEN Ok(Help)
               ELSE IF a.r.ok THEN Ok(OrHelpValue(a.r.v)) ELSE a.r,
         log |-> << <<p, "get">> >> \o a.log \o h.log]

\* Mutant: the wrapped descriptor is extracted first and its error wins.
WithHelp_get_ArgFirst(d, matches, p) ==
    LET a == Get(d.arg, matches, Append(p, "arg"))
        h == Get(d.help_flag, matches, Append(p, "help_flag"))
    IN  IF ~a.r.ok THEN [r |-> a.r, log |-> << <<p, "get">> >> \o a.log]
        ELSE [r |-> IF h.r.v THEN Ok(Help) ELSE Ok(OrHelpValue(a.r.v)),
              log |-> << <<p, "get">> >> \o a.log \o h.log]

WithHelp_get(d, matches, p) ==
    LET h == Get(d.help_flag, matches, Append(p, "help_flag"))
        a == Get(d.arg, matches, Append(p, "arg"))
    IN  IF h.r.v
        THEN [r |-> Ok(Help), log |-> << <<p, "get">> >> \o h.log]
        ELSE [r |-> IF a.r.ok THEN Ok(OrHelpValue(a.r.v)) ELSE a.r,
              log |-> << <<p, "get">> >> \o h.log \o a.log]

OptionMap_get(d, matches, p) ==
    LET a == Get(d.arg, matches, Append(p, "arg"))
        called == a.r.ok /\ a.r.v.some
    IN  [r |-> IF called THEN Ok(Some(Apply(d.f, a.r.v.v))) ELSE a.r,
         log |-> << <<p, "get">> >> \o a.log
                 \o (IF called THEN << <<p, "f">> >> ELSE <<>>)]

WithDefault_get(d, matches, p) ==
    LET a == Get(d.arg, matches, Append(p, "arg"))
    IN  [r |-> IF ~a.r.ok THEN a.r
               ELSE IF a.r.v.some THEN Ok(a.r.v.v) ELSE Ok(d.default_value),
         log |-> << <<p, "get">> >> \o a.log]

\* Mutant: when both are present, a wins.
Choice_get_PrefersA(d, matches, p) ==
    LET a == Get(d.a, matches, Append(p, "a"))
        b == Get(d.b, matches, Append(p, "b"))
    IN  IF ~a.r.ok
        THEN [r |-> Err([t |-> "ChoiceError::A", e |-> a.r.e]),
              log |-> << <<p, "get">> >> \o a.log]
        ELSE IF ~b.r.ok
        THEN [r |-> Err([t |-> "ChoiceError::B", e |-> b.r.e]),
              log |-> << <<p, "get">> >> \o a.log \o b.log]
        ELSE [r |-> IF a.r.v.some THEN a.r ELSE b.r,
              log |-> << <<p, "get">> >> \o a.log \o b.log]

Choice_get(d, matches, p) ==
    LET multiple_mutually_exclusive_args ==
            [t |-> "ChoiceError::MultipleMutuallyExclusiveArgs",
             a |-> Name(d.a), b |-> Name(d.b)]
        a == Get(d.a, matches, Append(p, "a"))
        b == Get(d.b, matches, Append(p, "b"))
    IN  IF ~a.r.ok
        THEN [r |-> Err([t |-> "ChoiceError::A", e |-> a.r.e]),
              log |-> << <<p, "get">> >> \o a.log]
        ELSE IF ~b.r.ok
        THEN [r |-> Err([t |-> "ChoiceError::B", e |-> b.r.e]),
              log |-> << <<p, "get">> >> \o a.log \o b.log]
        ELSE [r |-> IF a.r.v.some
                    THEN IF b.r.v.some THEN Err(multiple_mutually_exclusive_args)
                         ELSE Ok(Some(a.r.v.v))
                    ELSE b.r,
              log |-> << <<p, "get">> >> \o a.log \o b.log]

\* Mutant: b is extracted before a, and its error wins.
Both_get_BFirst(d, matches, p) ==
    LET a == Get(d.a, matches, Append(p, "a"))
        b == Get(d.b, matches, Append(p, "b"))
    IN  IF ~b.r.ok
        THEN [r |-> Err([t |-> "BothError::B", e |-> b.r.e]),
              log |-> << <<p, "get">> >> \o b.log]
        ELSE IF ~a.r.ok
        THEN [r |-> Err([t |-> "BothError::A", e |-> a.r.e]),
              log |-> << <<p, "get">> >> \o b.log \o a.log]
        ELSE [r |-> Ok(<<a.r.v, b.r.v>>), log |-> << <<p, "get">> >> \o b.log \o a.log]

Both_get(d, matches, p) ==
    LET a == Get(d.a, matches, Append(p, "a"))
        b == Get(d.b, matches, Append(p, "b"))
    IN  IF ~a.r.ok
        THEN [r |-> Err([t |-> "BothError::A", e |-> a.r.e]),
              log |-> << <<p, "get">> >> \o a.log]
        ELSE IF ~b.r.ok
        THEN [r |-> Err([t |-> "BothError::B", e |-> b.r.e]),
              log |-> << <<p, "get">> >> \o a.log \o b.log]
        ELSE [r |-> Ok(<<a.r.v, b.r.v>>), log |-> << <<p, "get">> >> \o a.log \o b.log]

Map_get(d, matches, p) ==
    LET a == Get(d.arg, matches, Append(p, "arg"))
    IN  [r |-> IF a.r.ok THEN Ok(Apply(d.f, a.r.v)) ELSE a.r,
         log |-> << <<p, "get">> >> \o a.log
                 \o (IF a.r.ok THEN << <<p, "f">> >> ELSE <<>>)]

\* Mutant: an error of the wrapped descriptor is reported as a missing
\* argument.
Required_get_HidesError(d, matches, p) ==
    LET name == Name(d.arg)
        a == Get(d.arg, matches, Append(p, "arg"))
    IN  [r |-> IF a.r.ok /\ a.r.v.some THEN Ok(a.r.v.v)
               ELSE Err([t |-> "RequiredError::MissingRequiredArg", name |-> name]),
         log |-> << <<p, "get">> >> \o a.log]

Required_get(d, matches, p) ==
    LET name == Name(d.arg)
        a == Get(d.arg, matches, Append(p, "arg"))
    IN  [r |-> IF ~a.r.ok THEN Err([t |-> "RequiredError::Arg", e |-> a.r.e])
               ELSE IF a.r.v.some THEN Ok(a.r.v.v)
               ELSE Err([t |-> "RequiredError::MissingRequiredArg", name |-> name]),
         log |-> << <<p, "get">> >> \o a.log]

\* Mutant: the error carries the name in place of the string given.
OptionConvertString_get_WrongString(d, matches, p) ==
    LET name == Name(d)
        a == Get(d.arg, matches, Append(p, "arg"))
        called == a.r.ok /\ a.r.v.some
        c == Apply(d.f, a.r.v.v)
    IN  [r |-> IF ~a.r.ok
               THEN Err([t |-> "OptionConvertStringError::Arg", e |-> a.r.e])
               ELSE IF ~a.r.v.some THEN Ok(None)
               ELSE IF c.ok THEN Ok(Some(c.v))
               ELSE Err([t |-> "OptionConvertStringError::FailedToConvert",
                         name |-> name, arg_string |-> name, error |-> c.e]),
         log |-> << <<p, "get">> >> \o a.log
                 \o (IF called THEN << <<p, "f">> >> ELSE <<>>)]

OptionConvertString_get(d, matches, p) ==
    LET name == Name(d)
        a == Get(d.arg, matches, Append(p, "arg"))
        called == a.r.ok /\ a.r.v.some
        c == Apply(d.f, a.r.v.v)
    IN  [r |-> IF ~a.r.ok
               THEN Err([t |-> "OptionConvertStringError::Arg", e |-> a.r.e])
               ELSE IF ~a.r.v.some THEN Ok(None)
               ELSE IF c.ok THEN Ok(Some(c.v))
               ELSE Err([t |-> "OptionConvertStringError::FailedToConvert",
                         name |-> name, arg_string |-> a.r.v.v, error |-> c.e]),
         log |-> << <<p, "get">> >> \o a.log
                 \o (IF called THEN << <<p, "f">> >> ELSE <<>>)]

Get(d, matches, p) ==
    CASE d.kind = "Flag" -> Flag_get(d, matches, p)
      [] d.kind = "Opt" -> Opt_get(d, matches, p)
      [] d.kind = "Value" -> Value_get(d, matches, p)
      [] d.kind = "WithHelp" -> WithHelp_get(d, matches, p)
      [] d.kind = "OptionMap" -> OptionMap_get(d, matches, p)
      [] d.kind = "WithDefault" -> WithDefault_get(d, matches, p)
      [] d.kind = "Choice" -> Choice_get(d, matches, p)
      [] d.kind = "Both" -> Both_get(d, matches, p)
      [] d.kind = "Map" -> Map_get(d, matches, p)
      [] d.kind = "Required" -> Required_get(d, matches, p)
      [] d.kind = "OptionConvertString" -> OptionConvertString_get(d, matches, p)

(***************************************************************************)
(* Display of the errors.                                                  *)
(***************************************************************************)
RECURSIVE Display(_)
Display(e) ==
    CASE e.t = "TopLevelError::Getopts" -> FailDisplay(e.e)
      [] e.t = "ChoiceError::MultipleMutuallyExclusiveArgs" ->
            <<"(">> \o e.a \o <<") and (">> \o e.b \o <<") are mutually exclusive">>
      [] e.t = "RequiredError::MissingRequiredArg" ->
            <<"missing required argument (">> \o e.name \o <<")">>
      [] e.t = "OptionConvertStringError::FailedToConvert" ->
            <<"failed to convert argument (">> \o e.name \o <<"). \"">>
            \o e.arg_string \o <<"\" could not be parsed (error: ">>
            \o Display(e.error) \o <<")">>
      [] e.t = "ParseIntError" ->
            IF e.kind = "Empty" THEN <<"cannot parse integer from empty string">>
            ELSE <<"invalid digit found in string">>
      [] OTHER -> Display(e.e)

\* Usage::render: the brief line, then one line per registered switch.
UsageRender(usage) ==
    <<"Usage: ">> \o usage.program_name \o <<" [options]", "\n\nOptions:\n">>
    \o [i \in 1..Len(usage.opts.grps) |-> usage.opts.grps[i]]

(***************************************************************************)
(* The descriptors and argument lists of the model.                        *)
(***************************************************************************)
\* The most groups of words an argument list is made of.
MaxGroups == 2

foo == <<"f", "o", "o">>

bar == <<"b", "a", "r">>

help == <<"h", "e", "l", "p">>

\* The switches of the model: short and long name.  The first and the third
\* share a key; the first and the fourth share a long name only.
Names ==
    << <<(<<"f">>), foo>>, <<(<<"b">>), bar>>, <<(<<"f">>), bar>>, <<(<<>>), foo>> >>

\* Opt::new(short, long, "", "")
OptStrings == [i \in 1..Len(Names) |-> OptNew(Names[i][1], Names[i][2], <<>>, <<>>)]

\* opt::<u32>(short, long, "", "")
OptNumbers == [i \in 1..Len(Names) |-> opt(Names[i][1], Names[i][2], <<>>, <<>>)]

Pairs == << <<1, 2>>, <<2, 1>>, <<1, 3>>, <<1, 4>> >>

Plain ==
    [k \in 1..Len(Pairs) |-> choice(OptNumbers[Pairs[k][1]], OptNumbers[Pairs[k][2]])]
    \o [k \in 1..Len(Pairs) |->
            both(required(OptNumbers[Pairs[k][1]]), required(OptNumbers[Pairs[k][2]]))]
    \o [k \in 1..Len(Pairs) |->
            args_map_add(required(OptNumbers[Pairs[k][1]]),
                         required(OptNumbers[Pairs[k][2]]))]
    \o << required(OptNumbers[1]),
          required(OptStrings[2]),
          OptNumbers[4],
          choice(OptStrings[1], OptStrings[2]),
          option_convert_string(choice(OptStrings[1], OptStrings[2]), "parse"),
          required(choice(OptNumbers[1], OptNumbers[2])),
          both(with_default(OptNumbers[1], 5), option_map(OptNumbers[2], "succ")),
          both(FlagNew(<<"b">>, bar, <<>>), ValueNew(<<"one">>, 1)),
          both(required(OptNumbers[1]), FlagNew(<<>>, <<"x">>, <<>>)) >>

\* Every descriptor as it is, and with the default help flag; some with a
\* help flag whose key is the key of a switch of the wrapped descriptor.
Trees ==
    Plain
    \o [k \in 1..Len(Plain) |-> with_help_default(Plain[k])]
    \o << with_help(Plain[5], FlagNew(<<"f">>, <<>>, <<>>)),
          with_help(Plain[Len(Plain) - 1], FlagNew(<<"b">>, help, <<>>)) >>

\* Groups of words: "--foo 7", "--bar 9", "--foo 42", "--foo xy", "-b9",
\* "--bar=", "--help", "--bar", "-f".  The first NumComplete are a switch
\* with its value.
Groups ==
    << << <<"-", "-">> \o foo, <<"7">> >>,
       << <<"-", "-">> \o bar, <<"9">> >>,
       << <<"-", "-">> \o foo, <<"4", "2">> >>,
       << <<"-", "-">> \o foo, <<"x", "y">> >>,
       << <<"-", "b", "9">> >>,
       << <<"-", "-">> \o bar \o <<"=">> >>,
       << <<"-", "-">> \o help >>,
       << <<"-", "-">> \o bar >>,
       << <<"-", "f">> >> >>

NumComplete == Len(Groups) - 3

RECURSIVE ArgLists(_)
ArgLists(n) ==
    IF n = 0 THEN {<<>>}
    ELSE ArgLists(n - 1)
         \cup {a \o Groups[g] : a \in ArgLists(n - 1), g \in 1..Len(Groups)}

ProgramName == <<"a", "p", "p">>

(***************************************************************************)
(* The driver.                                                             *)
(***************************************************************************)
program_name == env_args[1]

args == SubSeq(env_args, 2, Len(env_args))

Init ==
    /\ \E k \in 1..Len(Trees) : arg = Trees[k]
    /\ \E a \in ArgLists(MaxGroups) : env_args = <<ProgramName>> \o a
    /\ pc = "start"
    /\ checker = CheckerDefault
    /\ opts = OptionsNew
    /\ matched = None
    /\ get_log = <<>>
    /\ result = None
    /\ stdout = <<>>
    /\ stderr = <<>>
    /\ exit_code = None
    /\ returned = None

\* Mutant: a collision is not fatal.
ParseSpecified_validate_NoPanic ==
    /\ pc = "start"
    /\ checker' = UpdateSwitches(arg, CheckerDefault)
    /\ pc' = "validated"
    /\ UNCHANGED <<arg, env_args, opts, matched, get_log, result, stdout, stderr,
                   exit_code, returned>>

\* parse_specified: if let Some(invalid) = self.validate() { panic!(..) }
ParseSpecified_validate ==
    /\ pc = "start"
    /\ checker' = UpdateSwitches(arg, CheckerDefault)
    /\ LET invalid == CheckerInvalid(checker')
       IN  IF invalid.some
           THEN /\ pc' = "panicked"
                /\ stderr' = Append(stderr, <<"Invalid command spec:\n", invalid.v>>)
           ELSE /\ pc' = "validated"
                /\ UNCHANGED stderr
    /\ UNCHANGED <<arg, env_args, opts, matched, get_log, result, stdout,
                   exit_code, returned>>

\* parse_specified_ignoring_validation: Options::new(), update_switches
ParseSpecified_register ==
    /\ pc = "validated"
    /\ opts' = UpdateSwitches(arg, OptionsNew)
    /\ pc' = IF opts'.panicked THEN "panicked" ELSE "registered"
    /\ UNCHANGED <<arg, env_args, checker, matched, get_log, result, stdout, stderr,
                   exit_code, returned>>

\* opts.parse(args).map_err(TopLevelError::Getopts); on a failure the
\* ParseResult is complete.
ParseSpecified_parse ==
    /\ pc = "registered"
    /\ LET m == OptionsParse(opts, args)
       IN  /\ matched' = Some(m)
           /\ IF m.ok
              THEN pc' = "matched" /\ UNCHANGED result
              ELSE /\ pc' = "parsed"
                   /\ result' = Some(
                        [result |-> Err([t |-> "TopLevelError::Getopts", e |-> m.e]),
                         usage |-> [opts |-> opts, program_name |-> program_name]])
    /\ UNCHANGED <<arg, env_args, checker, opts, get_log, stdout, stderr,
                   exit_code, returned>>

\* .and_then(|matches| self.get(&matches).map_err(TopLevelError::Other))
ParseSpecified_get ==
    /\ pc = "matched"
    /\ LET g == Get(arg, matched.v.v, <<>>)
       IN  /\ get_log' = get_log \o g.log
           /\ result' = Some(
                [result |-> IF g.r.ok THEN g.r
                            ELSE Err([t |-> "TopLevelError::Other", e |-> g.r.e]),
                 usage |-> [opts |-> opts, program_name |-> program_name]])
    /\ pc' = "parsed"
    /\ UNCHANGED <<arg, env_args, checker, opts, matched, stdout, stderr,
                   exit_code, returned>>

\* parse_env_or_exit (of WithHelp only): Ok(OrHelp::Value(a)) => a
ParseEnvOrExit_value ==
    /\ pc = "parsed"
    /\ arg.kind = "WithHelp"
    /\ result.v.result.ok
    /\ result.v.result.v.t = "Value"
    /\ returned' = Some(result.v.result.v.v)
    /\ pc' = "returned"
    /\ UNCHANGED <<arg, env_args, checker, opts, matched, get_log, result, stdout,
                   stderr, exit_code>>

\* Mutant: the usage text of a help request goes to standard error, with
\* status 1.
ParseEnvOrExit_help_AsError ==
    /\ pc = "parsed"
    /\ arg.kind = "WithHelp"
    /\ result.v.result.ok
    /\ result.v.result.v.t = "Help"
    /\ stderr' = Append(stderr, UsageRender(result.v.usage))
    /\ exit_code' = Some(1)
    /\ pc' = "exited"
    /\ UNCHANGED <<arg, env_args, checker, opts, matched, get_log, result, stdout,
                   returned>>

\* Ok(OrHelp::Help) => { print!(usage); process::exit(0) }
ParseEnvOrExit_help ==
    /\ pc = "parsed"
    /\ arg.kind = "WithHelp"
    /\ result.v.result.ok
    /\ result.v.result.v.t = "Help"
    /\ stdout' = Append(stdout, UsageRender(result.v.usage))
    /\ exit_code' = Some(0)
    /\ pc' = "exited"
    /\ UNCHANGED <<arg, env_args, checker, opts, matched, get_log, result, stderr,
                   returned>>

\* Err(e) => { eprint!("{}\n\n", e); eprint!(usage); process::exit(1) }
ParseEnvOrExit_error ==
    /\ pc = "parsed"
    /\ arg.kind = "WithHelp"
    /\ ~result.v.result.ok
    /\ stderr' = stderr \o << Display(result.v.result.e) \o <<"\n\n">>,
                              UsageRender(result.v.usage) >>
    /\ exit_code' = Some(1)
    /\ pc' = "exited"
    /\ UNCHANGED <<arg, env_args, checker, opts, matched, get_log, result, stdout,
                   returned>>

Next ==
    \/ ParseSpecified_validate
    \/ ParseSpecified_register
    \/ ParseSpecified_parse
    \/ ParseSpecified_get
    \/ ParseEnvOrExit_value
    \/ ParseEnvOrExit_help
    \/ ParseEnvOrExit_error

Spec == Init /\ [][Next]_vars

(***************************************************************************)
(* What the properties below speak of.                                     *)
(***************************************************************************)
\* Every descriptor of the tree d with its path, d itself first.
RECURSIVE Nodes(_, _)
Nodes(d, p) ==
    << [d |-> d, p |-> p] >>
    \o (CASE d.kind \in {"Flag", "Opt", "Value"} -> <<>>
          [] d.kind = "WithHelp" ->
                Nodes(d.arg, Append(p, "arg"))
                \o Nodes(d.help_flag, Append(p, "help_flag"))
          [] d.kind \in {"Choice", "Both"} ->
                Nodes(d.a, Append(p, "a")) \o Nodes(d.b, Append(p, "b"))
          [] OTHER -> Nodes(d.arg, Append(p, "arg")))

\* The switches of the leaves of d, from left to right.
RECURSIVE Leaves(_)
Leaves(d) ==
    CASE d.kind = "Flag" -> << [common |-> d.common, shape |-> ShapeFlag] >>
      [] d.kind = "Opt" -> << [common |-> d.common, shape |-> ShapeOpt(d.hint)] >>
      [] d.kind = "Value" -> <<>>
      [] d.kind = "WithHelp" -> Leaves(d.arg) \o Leaves(d.help_flag)
      [] d.kind \in {"Choice", "Both"} -> Leaves(d.a) \o Leaves(d.b)
      [] OTHER -> Leaves(d.arg)

EffectiveKey(common) == IF common.short # <<>> THEN common.short ELSE common.long

IsPrefix(q, p) == Len(q) <= Len(p) /\ SubSeq(p, 1, Len(q)) = q

\* Some call of the log was made by the descriptor at path q or below it.
Invoked(log, q) == \E i \in 1..Len(log) : IsPrefix(q, log[i][1])

\* The descriptor at path q called the function it carries.
Called(log, q) == \E i \in 1..Len(log) : log[i] = <<q, "f">>

\* The place in the log of the get of the descriptor at path q, or 0.
GetAt(log, q) == Position({i \in 1..Len(log) : log[i] = <<q, "get">>})

\* The matching engine accepted the argument list.
Matched == matched.some /\ matched.v.ok

surface == matched.v.v

NodesOf(kind) ==
    LET ns == Nodes(arg, <<>>) IN {i \in 1..Len(ns) : ns[i].d.kind = kind}

Node(i) == Nodes(arg, <<>>)[i]

TopResult == result.v.result

(***************************************************************************)
(* C1: WithHelp.get looks at the help flag first.  On every match surface  *)
(* on which the help flag is present the result is Ok(Help) and no get of  *)
(* the wrapped descriptor (or below it) is made; when it is absent the     *)
(* result is the wrapped descriptor's: Ok(x) as Ok(Value(x)), and Err(e)   *)
(* as it is.                                                               *)
(***************************************************************************)
C1_HelpFirst ==
    Matched =>
        \A i \in NodesOf("WithHelp") :
            LET d == Node(i).d
                p == Node(i).p
                g == Get(d, surface, p)
                a == Get(d.arg, surface, Append(p, "arg"))
                asked == OptPresent(surface, EffectiveKey(d.help_flag.common))
            IN  /\ asked => /\ g.r = Ok(Help)
                            /\ ~Invoked(g.log, Append(p, "arg"))
                /\ ~asked => /\ a.r.ok => g.r = Ok(OrHelpValue(a.r.v))
                             /\ ~a.r.ok => g.r = a.r
                /\ GetAt(g.log, Append(p, "help_flag")) # 0

\* Help is asked for, the wrapped descriptor alone would fail, and the run
\* ends with Help without a get of the wrapped descriptor.
C1_Witness ==
    /\ pc = "parsed"
    /\ arg.kind = "WithHelp"
    /\ Matched
    /\ OptPresent(surface, EffectiveKey(arg.help_flag.common))
    /\ ~Get(arg.arg, surface, <<"arg">>).r.ok
    /\ TopResult = Ok(Help)
    /\ ~Invoked(get_log, <<"arg">>)

(***************************************************************************)
(* C2, as stated: whenever the argument list holds the help flag (here:    *)
(* as its first word, where it cannot be the value of another switch),     *)
(* parse_specified of a descriptor wrapped with the default help flag      *)
(* yields Help and never an error.                                         *)
(***************************************************************************)
C2_HelpAlwaysWins ==
    (/\ pc = "parsed"
     /\ arg.kind = "WithHelp"
     /\ arg.help_flag.common.long = help
     /\ Len(args) > 0
     /\ args[1] = <<"-", "-">> \o help)
    => TopResult = Ok(Help)

(***************************************************************************)
(* C2, amended: help wins over every extraction error, not over a failure  *)
(* of the matching engine.  When the engine accepts the argument list and  *)
(* finds the help flag, parse_specified yields Help, also when the wrapped *)
(* descriptor's own extraction would fail; when the engine rejects the     *)
(* list, the result is TopLevelError::Getopts with the engine's failure,   *)
(* also when the help flag is in the list.                                 *)
(***************************************************************************)
C2_HelpWinsOverExtraction ==
    (pc = "parsed" /\ arg.kind = "WithHelp") =>
        /\ (Matched /\ OptPresent(surface, EffectiveKey(arg.help_flag.common)))
              => TopResult = Ok(Help)
        /\ ~Matched => TopResult = Err([t |-> "TopLevelError::Getopts", e |-> matched.v.e])

\* "--help" together with an unconvertible value of the wrapped descriptor's
\* switch: the outcome is Help.
C2_Witness ==
    /\ pc = "parsed"
    /\ arg.kind = "WithHelp"
    /\ \E i \in 1..Len(args) : args[i] = <<"-", "-">> \o help
    /\ \E i \in 1..Len(args) : args[i] = <<"x", "y">>
    /\ Matched
    /\ ~Get(arg.arg, surface, <<"arg">>).r.ok
    /\ TopResult = Ok(Help)

(***************************************************************************)
(* C3: Choice.get.  With both extractions succeeding: neither present      *)
(* gives Ok(None), exactly one present gives that one's value, both        *)
(* present give MultipleMutuallyExclusiveArgs with the names of a and b.   *)
(* a is extracted before b; a failure of a gives ChoiceError::A and b is   *)
(* not extracted; a failure of b gives ChoiceError::B.                     *)
(***************************************************************************)
C3_Choice ==
    Matched =>
        \A i \in NodesOf("Choice") :
            LET d == Node(i).d
                p == Node(i).p
                g == Get(d, surface, p)
                a == Get(d.a, surface, Append(p, "a")).r
                b == Get(d.b, surface, Append(p, "b")).r
            IN  /\ (a.ok /\ b.ok) =>
                    /\ (~a.v.some /\ ~b.v.some) => g.r = Ok(None)
                    /\ (a.v.some /\ ~b.v.some) => g.r = Ok(Some(a.v.v))
                    /\ (~a.v.some /\ b.v.some) => g.r = Ok(Some(b.v.v))
                    /\ (a.v.some /\ b.v.some) =>
                          g.r = Err([t |-> "ChoiceError::MultipleMutuallyExclusiveArgs",
                                     a |-> Name(d.a), b |-> Name(d.b)])
                /\ ~a.ok => /\ g.r = Err([t |-> "ChoiceError::A", e |-> a.e])
                            /\ ~Invoked(g.log, Append(p, "b"))
                /\ (a.ok /\ ~b.ok) => g.r = Err([t |-> "ChoiceError::B", e |-> b.e])
                /\ GetAt(g.log, Append(p, "a")) # 0
                /\ Invoked(g.log, Append(p, "b")) =>
                      GetAt(g.log, Append(p, "a")) < GetAt(g.log, Append(p, "b"))

\* Both options of a choice were given, and the run ends with the
\* mutual-exclusion error.
C3_Witness ==
    /\ pc = "parsed"
    /\ arg.kind = "Choice"
    /\ Matched
    /\ Get(arg.a, surface, <<"a">>).r = Ok(Some(42))
    /\ Get(arg.b, surface, <<"b">>).r = Ok(Some(9))
    /\ TopResult = Err([t |-> "TopLevelError::Other",
                        e |-> [t |-> "ChoiceError::MultipleMutuallyExclusiveArgs",
                               a |-> foo, b |-> bar]])

(***************************************************************************)
(* C4: Both.get.  A failure of a gives BothError::A and b is not           *)
(* extracted; otherwise a failure of b gives BothError::B; otherwise the   *)
(* result is the pair (a's item, b's item).  Two switches given with their *)
(* values are accepted by the matching engine in either order or in        *)
(* neither, and give the same result in either order: foo = 7 and bar = 9  *)
(* give (7, 9), and 16 when mapped with a + b.                             *)
(***************************************************************************)
C4_Both ==
    /\ Matched =>
        \A i \in NodesOf("Both") :
            LET d == Node(i).d
                p == Node(i).p
                g == Get(d, surface, p)
                a == Get(d.a, surface, Append(p, "a")).r
                b == Get(d.b, surface, Append(p, "b")).r
            IN  /\ ~a.ok => /\ g.r = Err([t |-> "BothError::A", e |-> a.e])
                            /\ ~Invoked(g.log, Append(p, "b"))
                /\ (a.ok /\ ~b.ok) => g.r = Err([t |-> "BothError::B", e |-> b.e])
                /\ (a.ok /\ b.ok) => g.r = Ok(<<a.v, b.v>>)
                /\ Invoked(g.log, Append(p, "b")) =>
                      GetAt(g.log, Append(p, "a")) < GetAt(g.log, Append(p, "b"))
    /\ (pc = "parsed" /\ NodesOf("Both") # {}) =>
        \A g1, g2 \in 1..NumComplete :
            args = Groups[g1] \o Groups[g2] =>
                LET m == OptionsParse(opts, Groups[g2] \o Groups[g1])
                IN  /\ m.ok = matched.v.ok
                    /\ m.ok => LET r == Get(arg, m.v, <<>>).r
                               IN  TopResult =
                                     IF r.ok THEN r
                                     ELSE Err([t |-> "TopLevelError::Other", e |-> r.e])
    /\ (/\ pc = "parsed"
        /\ \/ args = Groups[1] \o Groups[2]
           \/ args = Groups[2] \o Groups[1]) =>
        /\ arg = both(required(OptNumbers[1]), required(OptNumbers[2]))
              => TopResult = Ok(<<7, 9>>)
        /\ arg = args_map_add(required(OptNumbers[1]), required(OptNumbers[2]))
              => TopResult = Ok(16)

\* "--bar 9 --foo 7" on the sum of the required options foo and bar: 16.
C4_Witness ==
    /\ pc = "parsed"
    /\ arg = args_map_add(required(OptNumbers[1]), required(OptNumbers[2]))
    /\ args = Groups[2] \o Groups[1]
    /\ TopResult = Ok(16)

(***************************************************************************)
(* C5: OptionConvertString.get calls the conversion only on a string that  *)
(* is present.  Absent: Ok(None) and no call.  Present and converted to t: *)
(* Ok(Some(t)).  Present and not convertible: FailedToConvert with the     *)
(* descriptor's name, the string as given, and the conversion's error.  An *)
(* error of the wrapped descriptor comes back as the Arg variant.          *)
(***************************************************************************)
C5_OptionConvertString ==
    /\ Matched =>
        \A i \in NodesOf("OptionConvertString") :
            LET d == Node(i).d
                p == Node(i).p
                g == Get(d, surface, p)
                a == Get(d.arg, surface, Append(p, "arg")).r
                c == ParseU32(a.v.v)
            IN  /\ (a.ok /\ ~a.v.some) => g.r = Ok(None) /\ ~Called(g.log, p)
                /\ (a.ok /\ a.v.some /\ c.ok) => g.r = Ok(Some(c.v)) /\ Called(g.log, p)
                /\ (a.ok /\ a.v.some /\ ~c.ok) =>
                      /\ g.r = Err([t |-> "OptionConvertStringError::FailedToConvert",
                                    name |-> Name(d.arg), arg_string |-> a.v.v,
                                    error |-> c.e])
                      /\ Called(g.log, p)
                /\ ~a.ok => /\ g.r = Err([t |-> "OptionConvertStringError::Arg", e |-> a.e])
                            /\ ~Called(g.log, p)
    /\ (pc = "parsed" /\ arg = required(OptNumbers[1])) =>
        /\ args = Groups[3] => TopResult = Ok(42)
        /\ args = Groups[4] =>
              TopResult = Err([t |-> "TopLevelError::Other",
                  e |-> [t |-> "RequiredError::Arg",
                         e |-> [t |-> "OptionConvertStringError::FailedToConvert",
                                name |-> foo, arg_string |-> <<"x", "y">>,
                                error |-> [t |-> "ParseIntError",
                                           kind |-> "InvalidDigit"]]]])

\* "--foo xy" on the required integer option foo: the run ends with the
\* conversion error naming foo and "xy".
C5_Witness ==
    /\ pc = "parsed"
    /\ arg = required(OptNumbers[1])
    /\ args = Groups[4]
    /\ ~TopResult.ok
    /\ TopResult.e.e.e.t = "OptionConvertStringError::FailedToConvert"
    /\ TopResult.e.e.e.name = foo
    /\ TopResult.e.e.e.arg_string = <<"x", "y">>

(***************************************************************************)
(* C6: Required.get.  Some(x) of the wrapped descriptor gives Ok(x); None  *)
(* gives MissingRequiredArg with the wrapped descriptor's name, which its  *)
(* display text shows; an error of the wrapped descriptor comes back as    *)
(* RequiredError::Arg, never as MissingRequiredArg.                        *)
(***************************************************************************)
C6_Required ==
    Matched =>
        \A i \in NodesOf("Required") :
            LET d == Node(i).d
                p == Node(i).p
                g == Get(d, surface, p)
                a == Get(d.arg, surface, Append(p, "arg")).r
            IN  /\ (a.ok /\ a.v.some) => g.r = Ok(a.v.v)
                /\ (a.ok /\ ~a.v.some) =>
                      /\ g.r = Err([t |-> "RequiredError::MissingRequiredArg",
                                    name |-> Name(d.arg)])
                      /\ Display(g.r.e) =
                            <<"missing required argument (">> \o Name(d.arg) \o <<")">>
                /\ ~a.ok => g.r = Err([t |-> "RequiredError::Arg", e |-> a.e])

\* The required option foo is not given: the run ends with
\* MissingRequiredArg naming foo.
C6_Witness ==
    /\ pc = "parsed"
    /\ arg.kind = "Required"
    /\ Matched
    /\ TopResult = Err([t |-> "TopLevelError::Other",
                        e |-> [t |-> "RequiredError::MissingRequiredArg",
                               name |-> foo]])

(***************************************************************************)
(* C7: validate() returns None when the effective keys (the short name if  *)
(* it is not empty, else the long name) of the switches of the tree, the   *)
(* help flag included, are pairwise distinct; when two of them are equal   *)
(* it returns a report that holds that key.                                *)
(***************************************************************************)
C7_Validate ==
    LET ls == Leaves(arg)
        v == Validate(arg)
        Same(i, j) == i # j /\ EffectiveKey(ls[i].common) = EffectiveKey(ls[j].common)
    IN  /\ (\A i, j \in 1..Len(ls) : ~Same(i, j)) => v = None
        /\ \A i, j \in 1..Len(ls) :
              Same(i, j) => v.some /\ EffectiveKey(ls[i].common) \in DOMAIN v.v
        /\ pc # "start" => CheckerInvalid(checker) = v

\* The help flag has the key of a switch of the wrapped descriptor, and
\* validation reported it.
C7_Witness ==
    /\ pc = "panicked"
    /\ arg.kind = "WithHelp"
    /\ Validate(arg.arg) = None
    /\ CheckerInvalid(checker).some
    /\ EffectiveKey(arg.help_flag.common) \in DOMAIN CheckerInvalid(checker).v

(***************************************************************************)
(* C8: parse_env_or_exit ends in one of three ways, by the parse result.   *)
(* Ok(Value(a)): a is returned, nothing is written, no exit.  Ok(Help):    *)
(* the usage text on standard output, exit status 0.  An error: its        *)
(* display text, a blank line and the usage text on standard error, exit   *)
(* status 1.  No run writes to both streams or both returns and exits.     *)
(***************************************************************************)
C8_ThreeOutcomes ==
    /\ ~(stdout # <<>> /\ stderr # <<>>)
    /\ ~(returned.some /\ exit_code.some)
    /\ (returned.some \/ exit_code.some \/ stdout # <<>>) => pc \in {"returned", "exited"}
    /\ (pc = "parsed" /\ arg.kind = "WithHelp") => ENABLED Next
    /\ pc \in {"returned", "exited"} =>
        /\ arg.kind = "WithHelp"
        /\ (TopResult.ok /\ TopResult.v.t = "Value") =>
              /\ pc = "returned"
              /\ returned = Some(TopResult.v.v)
              /\ stdout = <<>> /\ stderr = <<>> /\ exit_code = None
        /\ (TopResult.ok /\ TopResult.v.t = "Help") =>
              /\ pc = "exited"
              /\ stdout = << UsageRender(result.v.usage) >>
              /\ stderr = <<>> /\ exit_code = Some(0) /\ returned = None
        /\ ~TopResult.ok =>
              /\ pc = "exited"
              /\ stderr = << Display(TopResult.e) \o <<"\n\n">>,
                             UsageRender(result.v.usage) >>
              /\ stdout = <<>> /\ exit_code = Some(1) /\ returned = None

\* The matching engine rejected the argument list, and the process exited
\* with status 1 after writing to standard error only.
C8_Witness ==
    /\ pc = "exited"
    /\ ~matched.v.ok
    /\ exit_code = Some(1)
    /\ Len(stderr) = 2
    /\ stdout = <<>>

(***************************************************************************)
(* C9: parse_specified validates, registers, matches and extracts, in this *)
(* order, and a failure stops the later steps.  A collision panics with    *)
(* nothing registered on the matching engine and the argument list not     *)
(* read.  A failure of the matching engine is returned unchanged as        *)
(* TopLevelError::Getopts, and get is not called.  get is called once, and *)
(* only after a successful match; its error is returned as                 *)
(* TopLevelError::Other.  Every ParseResult carries the Usage of the       *)
(* registered switches and the program name.                               *)
(***************************************************************************)
C9_Order ==
    /\ (pc # "start" /\ Validate(arg).some) =>
          /\ pc = "panicked"
          /\ opts = OptionsNew /\ matched = None /\ get_log = <<>> /\ result = None
    /\ opts # OptionsNew => checker = UpdateSwitches(arg, CheckerDefault)
    /\ matched.some => opts = UpdateSwitches(arg, OptionsNew) /\ ~opts.panicked
    /\ (matched.some /\ ~matched.v.ok) =>
          /\ get_log = <<>>
          /\ result.some
          /\ TopResult = Err([t |-> "TopLevelError::Getopts", e |-> matched.v.e])
    /\ get_log # <<>> =>
          /\ Matched
          /\ Cardinality({i \in 1..Len(get_log) : get_log[i] = <<(<<>>), "get">>}) = 1
          /\ get_log[1] = <<(<<>>), "get">>
    /\ (Matched /\ pc # "matched") =>
          LET g == Get(arg, surface, <<>>)
          IN  /\ get_log = g.log
              /\ TopResult = IF g.r.ok THEN g.r
                             ELSE Err([t |-> "TopLevelError::Other", e |-> g.r.e])
    /\ result.some =>
          /\ matched.some
          /\ result.v.usage.program_name = env_args[1]
          /\ Len(result.v.usage.opts.grps) = Len(Leaves(arg))
          /\ \A i \in 1..Len(Leaves(arg)) :
                /\ result.v.usage.opts.grps[i].short_name = Leaves(arg)[i].common.short
                /\ result.v.usage.opts.grps[i].long_name = Leaves(arg)[i].common.long
    /\ pc \in {"parsed", "returned", "exited"} <=> result.some

\* The matching engine rejected the argument list: the result is its
\* failure, with the usage, and get was not called.
C9_Witness ==
    /\ pc = "parsed"
    /\ ~matched.v.ok
    /\ matched.v.e.t = "ArgumentMissing"
    /\ get_log = <<>>
    /\ Len(result.v.usage.opts.grps) = 3

(***************************************************************************)
(* C10: update_switches adds one entry per Flag and Opt leaf and none for  *)
(* Value, from left to right (for WithHelp the wrapped descriptor's        *)
(* switches, then the help flag), on the validation checker and on the     *)
(* matching engine alike, so that both surfaces hold the same switches in  *)
(* the same order.                                                         *)
(***************************************************************************)
C10_Registration ==
    LET ls == Leaves(arg)
    IN  /\ pc # "start" => checker.seen = ls
        /\ pc \in {"registered", "matched", "parsed", "returned", "exited"} =>
              /\ Len(opts.grps) = Len(ls)
              /\ \A i \in 1..Len(ls) :
                    /\ opts.grps[i].short_name = checker.seen[i].common.short
                    /\ opts.grps[i].long_name = checker.seen[i].common.long
                    /\ opts.grps[i].desc = checker.seen[i].common.doc
                    /\ opts.grps[i].hint = checker.seen[i].shape.hint
                    /\ opts.grps[i].hasarg = "Yes" <=> checker.seen[i].shape.t = "Opt"
        /\ UpdateSwitches(arg, CheckerDefault).seen = ls

\* Two options, a flag-free constant aside, and the help flag last, on both
\* surfaces.
C10_Witness ==
    /\ pc = "registered"
    /\ arg.kind = "WithHelp"
    /\ arg.arg.kind = "Both"
    /\ Len(opts.grps) = 3
    /\ opts.grps[1].long_name = foo
    /\ opts.grps[2].long_name = bar
    /\ opts.grps[3].long_name = help
    /\ Len(checker.seen) = 3

====
